---- MODULE Spec2Model ----
(***************************************************************************)
(* Job orchestration engine of maptoposter-web.                            *)
(*                                                                         *)
(* The model has one single-job request (create_poster_job followed by the *)
(* generate_poster task), one batch request (create_batch_poster_job       *)
(* followed by the generate_batch_posters task) and a caller of            *)
(* cancel_job.  The two tasks and the caller run concurrently (the worker  *)
(* is started with --concurrency=2, the web process is a third context);   *)
(* every database commit is one atomic step on the shared store.           *)
(*                                                                         *)
(* External capabilities (the OSM downloads, the matplotlib renderer, the  *)
(* thumbnailer, the geocoder, the broker) are modelled by their outcomes,  *)
(* chosen nondeterministically.  Note on the renderer: in this snapshot    *)
(* render_poster (map_generator.py:359) does not accept the width_inches,  *)
(* height_inches and dpi keywords both call sites pass, so a call raises   *)
(* TypeError; that is the "raise" outcome below.  The other outcomes are   *)
(* those of a renderer that accepts the call.                              *)
(*                                                                         *)
(* The geocoding service (GeocodingService.geocode) is a separate part of  *)
(* the model: its calls are atomic steps on the cache store and the        *)
(* limiter counter, and the passing of time is the store dropping a key    *)
(* whose time to live is over.                                             *)
(*                                                                         *)
(* fetch_map_data is modelled a second time on its own, with the three     *)
(* download threads, the order in which as_completed yields them and the   *)
(* callback invocations, for the statements about the call itself.  The     *)
(* step record update_progress builds from a step text is modelled on its  *)
(* own as well, over texts made of a few words.                            *)
(***************************************************************************)
EXTENDS Integers, Sequences, FiniteSets, TLC

\* ---------------------------------------------------------------- bounds
MaxThemes == 2
MaxCancels == 2
MaxOver == 2
MaxWords == 3

\* ------------------------------------------------------ program constants
MaxAttempts == 5
SingleJob == 1
RateLimitMax == 10
\* cache_ttl = 86400 * 30, the seconds of 30 days
CacheTtl == 2592000

Themes == {"noir", "pastel"}
Sources == {"streets", "water", "parks"}
JobIds == 1..(MaxThemes + 1)
Terminal == {"completed", "failed", "cancelled"}

\* Checkpoints written before the downloads start (generate_poster).
PreFetch == <<5, 10, 20, 25, 30>>
\* Checkpoints of the six render stages, in the order render_poster reports them.
RenderStages == <<65, 70, 75, 80, 85, 90>>

\* fetch_progress_callback: the checkpoint depends on the source only.
FetchPercent(src) ==
    IF src = "streets" THEN 40 ELSE IF src = "water" THEN 50 ELSE 60

\* ------------------------------------------------------------------ state
VARIABLES
    jobs,        \* the jobs table: job id -> row ("absent" = no such row)
    posters,     \* the posters table: sequence of rows
    rendering,   \* number of render_poster calls in flight
    pcS,         \* generate_poster: position
    attemptS,    \* generate_poster: lookups made
    jobS,        \* generate_poster: the local job is not None
    stepS,       \* generate_poster: index of the next checkpoint / render stage
    fetchedS,    \* generate_poster: sources fetch_map_data has collected
    sessS,       \* generate_poster: the database session is usable
    outS,        \* generate_poster: os.path.exists(output_file) after the render
    thumbS,      \* generate_poster: thumbnail_path is not None
    retS,        \* generate_poster: returned value
    pcB,         \* generate_batch_posters: position
    batchIds,    \* generate_batch_posters: the job_ids argument
    lookAt,      \* generate_batch_posters: index of the id being looked up
    attemptB,    \* generate_batch_posters: lookups made for that id
    jobB,        \* generate_batch_posters: the local job is not None
    resolved,    \* generate_batch_posters: the list jobs
    fetchedB,    \* create_batch_posters: sources collected
    idx,         \* create_batch_posters: index of the theme being rendered
    results,     \* create_batch_posters: the list results
    sessionOk,   \* batch task's db.session is usable (no failed flush)
    retB,        \* generate_batch_posters: returned value
    cancelPc,    \* cancel_job: position
    cancelArg,   \* cancel_job: job_id argument
    cancelSaw,   \* cancel_job: status of the row it loaded ("absent": none)
    cancelRet,   \* cancel_job: last returned value
    cancelsLeft, \* cancel_job calls still to come
    revokeOut,   \* cancel_job: outcome of the last revoke attempt
    revoked,     \* the broker delivered a revoke for the generate_poster task
    geoCache,    \* geocode: the cache store, key -> stored result
    limCount,    \* geocode: value of the counter geocoding:rate_limit (0: no key)
    limArmed,    \* geocode: the counter key has a time to live
    limCallers,  \* callers the limiter let through since the counter was created
    geoSeq,      \* geocode calls made, modulo 2
    geoRet,      \* geocode: what the last call did and returned
    fmPc,        \* fetch_map_data: position
    fmCb,        \* fetch_map_data: a progress_callback was passed
    fmLib,       \* fetch_map_data: what OSMnx did for each download
    fmFinished,  \* fetch_map_data: the sources in the order their futures finished
    fmEarly,     \* fetch_map_data: the futures finished before as_completed began
    fmQueue,     \* fetch_map_data: finished futures as_completed has yet to yield
    fmCompleted, \* fetch_map_data: the completed counter
    fmData,      \* fetch_map_data: the map_data dictionary
    fmCalls,     \* fetch_map_data: the progress_callback invocations so far
    fmRet,       \* fetch_map_data: how the last call ended
    stepEntry    \* update_progress: the step_entry of the call under way

vars == <<jobs, posters, rendering, pcS, attemptS, jobS, stepS, fetchedS, sessS, outS,
          thumbS, retS, pcB, batchIds, lookAt, attemptB, jobB, resolved, fetchedB,
          idx, results, sessionOk, retB, cancelPc, cancelArg, cancelSaw, cancelRet,
          cancelsLeft, revokeOut, revoked, geoCache, limCount, limArmed,
          limCallers, geoSeq, geoRet, fmPc, fmCb, fmLib, fmFinished, fmEarly,
          fmQueue, fmCompleted, fmData, fmCalls, fmRet, stepEntry>>

singleVars == <<pcS, attemptS, jobS, stepS, fetchedS, sessS, outS, thumbS, retS>>
batchVars == <<pcB, batchIds, lookAt, attemptB, jobB, resolved, fetchedB, idx,
               results, sessionOk, retB>>
cancelVars == <<cancelPc, cancelArg, cancelSaw, cancelRet, cancelsLeft, revokeOut>>
geoVars == <<geoCache, limCount, limArmed, limCallers, geoSeq, geoRet>>
jobVars == <<jobs, posters, rendering, singleVars, batchVars, cancelVars, revoked>>
fetchVars == <<fmPc, fmCb, fmLib, fmFinished, fmEarly, fmQueue, fmCompleted, fmData,
               fmCalls, fmRet>>
entryVars == <<stepEntry>>
sideVars == <<geoVars, fetchVars, entryVars>>

\* ------------------------------------------------------------- job rows
NoJob ==
    [status |-> "absent", theme |-> "", progress |-> 0, started_at |-> FALSE,
     completed_at |-> FALSE, failed_at |-> FALSE, error_type |-> "",
     error_message |-> FALSE, error_traceback |-> FALSE,
     progress_steps |-> <<>>, result |-> 0]

\* Job(... status=JobStatus.PENDING ...): the column defaults of models.Job.
NewJob(theme) == [NoJob EXCEPT !.status = "pending", !.theme = theme]

Exists(J, j) == j \in DOMAIN J /\ J[j].status # "absent"

\* update_progress: an independent read-modify-write; a missing job is skipped.
\* progress_steps is a plain JSON column (models.py:46) and the step is appended
\* to the loaded list in place: the commit writes current_step and progress,
\* the stored progress_steps keeps the value last assigned to it.
UpdateProgress(J, j, pct) ==
    IF Exists(J, j) THEN [J EXCEPT ![j].progress = pct] ELSE J

\* update_progress catches the exception of a failed commit and logs it; the
\* session is not rolled back, so nothing can be read or written through it
\* afterwards (poster_tasks.py has no rollback).
SessionAfter(usable, written) ==
    usable /\ written

\* What one update_progress call leaves in the jobs table.
Progress(J, j, pct, written) ==
    IF written THEN UpdateProgress(J, j, pct) ELSE J

\* Job.to_dict: the keys of the status view that depend on the row.  The
\* error keys are emitted under "if self.failed_at" only.
ToDict(row) ==
    [k \in {"status", "progress"} \cup
            (IF row.failed_at THEN {"error", "error_message", "retry_allowed"}
             ELSE {}) |->
        CASE k = "status" -> row.status
          [] k = "progress" -> row.progress
          [] k = "error" -> row.error_type
          [] k = "error_message" -> row.error_message
          [] k = "retry_allowed" -> TRUE]

\* A posters table without the unique constraint on job_id.
PosterInsertAlways(P, j) == TRUE

\* Poster.job_id is unique=True: the insert is rejected when a row for the job exists.
PosterInsertOk(P, j) == \A k \in 1..Len(P) : P[k].job_id # j

NewPoster(P, j, file, thumb) ==
    [id |-> Len(P) + 1, job_id |-> j, file |-> file, thumbnail |-> thumb]

\* ------------------------------------------------------ geocoding service
\* The names callers send, in the spellings they send them.
Cities == {"Oslo", "oslo"}
Countries == {"NO", "no"}
Callers == {"a", "b"}

\* str.lower() on those names.
Lower(s) ==
    CASE s = "Oslo" -> "oslo"
      [] s = "NO" -> "no"
      [] s = "Streets" -> "streets"
      [] s = "Downloaded" -> "downloaded"
      [] s = "Rendering" -> "rendering"
      [] s = "Reprocessing" -> "reprocessing"
      [] OTHER -> s

\* A cache key that keeps the spelling of the caller.
CacheKeyAsTyped(city, country) == <<city, country>>

\* cache_key = f"geocode:{city.lower()}:{country.lower()}"
CacheKey(city, country) == <<Lower(city), Lower(country)>>

GeoKeys == (Cities \cup {Lower(c) : c \in Cities})
               \X (Countries \cup {Lower(c) : c \in Countries})

\* redis get returned nothing for the key.
NoEntry == [city |-> "", country |-> "", ttl |-> 0]

\* A cache that also remembers that the resolver found nothing.
SetexAlsoNotFound(cache, key, city, country, resolver, cacheSet) ==
    IF resolver \in {"location", "nothing"} /\ cacheSet = "ok"
    THEN [cache EXCEPT ![key] = [city |-> city, country |-> country,
                                 ttl |-> CacheTtl]]
    ELSE cache

\* What the cache holds after a call that reached the resolver: setex(key,
\* cache_ttl, result) after a location, when the store takes the write.
Setex(cache, key, city, country, resolver, cacheSet) ==
    IF resolver = "location" /\ cacheSet = "ok"
    THEN [cache EXCEPT ![key] = [city |-> city, country |-> country,
                                 ttl |-> CacheTtl]]
    ELSE cache

\* A limiter that lets one call more through.
RateAllowedOneMore(current) == current <= RateLimitMax + 1

\* return current <= self.rate_limit_max
RateAllowed(current) == current <= RateLimitMax

\* The record of a geocode call: its arguments, what each store and the
\* resolver did for it, and what it returned or raised.
GeoCall(city, country, caller, read, limiter, upstream, write, result) ==
    [city |-> city, country |-> country, caller |-> caller, read |-> read,
     limiter |-> limiter, upstream |-> upstream, write |-> write,
     result |-> result]

NoCall == GeoCall("", "", "", "none", "none", FALSE, "none", "none")

\* A limiter check that refuses the call when the store raises.
CheckRateLimitStrict(limiter, current) ==
    IF limiter = "ok" THEN RateAllowed(current) ELSE FALSE

\* _check_rate_limit: the comparison when INCR (and EXPIRE) worked, True from
\* the except branch when either raised.
CheckRateLimit(limiter, current) ==
    IF limiter = "ok" THEN RateAllowed(current) ELSE TRUE

\* -------------------------------------------------------- step records
\* The check mark that closes some of the messages, by its code point.
CheckMark == "U+2713"

\* A step text is a sequence of words; the last two words below are the
\* three full stops and the check mark.
Words == {"Streets", "downloaded", "Downloaded", "completed", "Rendering",
          "processing", "Reprocessing", "...", CheckMark}
StepTexts == UNION {[1..n -> Words] : n \in 0..MaxWords}
Percents == {5, 65, 100}

\* step.endswith(mark)
EndsWith(step, mark) == Len(step) > 0 /\ step[Len(step)] = mark

\* part in word, for two lower-case words
PartOf(part, word) ==
    word = part \/ (part = "processing" /\ word = "reprocessing")

\* keyword in step.lower()
InLower(keyword, step) == \E i \in 1..Len(step) : PartOf(keyword, Lower(step[i]))

\* A classification that tries the in_progress test first.
StepStatusBusyFirst(step) ==
    IF \/ EndsWith(step, "...")
       \/ InLower("processing", step) \/ InLower("rendering", step)
    THEN "in_progress"
    ELSE IF \/ EndsWith(step, CheckMark)
            \/ InLower("downloaded", step) \/ InLower("completed", step)
    THEN "completed"
    ELSE "pending"

\* if .. status = 'completed' elif .. status = 'in_progress' else 'pending'
StepStatus(step) ==
    IF \/ EndsWith(step, CheckMark)
       \/ InLower("downloaded", step) \/ InLower("completed", step)
    THEN "completed"
    ELSE IF \/ EndsWith(step, "...")
            \/ InLower("processing", step) \/ InLower("rendering", step)
    THEN "in_progress"
    ELSE "pending"

\* step_entry, without its timestamp.
StepEntry(step, progress) ==
    [step |-> step, status |-> StepStatus(step), progress |-> progress]

NoStep == [step |-> <<>>, status |-> "none", progress |-> 0]

\* ------------------------------------------------------- fetch_map_data
\* The map_data dictionary before the collection loop has stored anything.
NoData == [graph |-> "unset", water |-> "unset", parks |-> "unset"]

\* The key of map_data a source is stored under.
DataKey(src) == IF src = "streets" THEN "graph" ELSE src

\* What OSMnx can do for a download: graph_from_point returns a graph or
\* raises; features_from_point returns features, returns an empty frame or
\* raises (a place without such features is reported in one of the last two
\* ways, depending on the OSMnx release).
LibOutcomes(src) ==
    IF src = "streets" THEN {"graph", "raises"}
    ELSE {"features", "empty", "raises"}

\* An optional download whose wrapper lets the exception out.
FetchResultUnguarded(src, lib) ==
    lib

\* _fetch_streets, _fetch_water, _fetch_parks: the result of the future.  The
\* street download lets an exception out; the water and the parks download
\* catch it and return None.
FetchResult(src, lib) ==
    IF src # "streets" /\ lib = "raises" THEN "None" ELSE lib

\* A collection loop that reports the count it had before this future.
CompletedStale(completed) ==
    completed

\* completed += 1, the first statement of the loop body.
Completed(completed) ==
    completed + 1

\* The permutations of a set of sources.
Orders(S) ==
    {q \in UNION {[1..n -> S] : n \in {Cardinality(S)}} :
        \A i, j \in DOMAIN q : i # j => q[i] # q[j]}

\* ------------------------------------------------------------------ Init
Init ==
    /\ jobs = [j \in JobIds |-> NoJob]
    /\ posters = <<>>
    /\ rendering = 0
    /\ pcS = "off" /\ attemptS = 0 /\ jobS = FALSE /\ stepS = 0 /\ fetchedS = {}
    /\ sessS = TRUE /\ outS = FALSE /\ thumbS = FALSE /\ retS = "none"
    /\ pcB = "off" /\ batchIds = <<>> /\ lookAt = 1 /\ attemptB = 0
    /\ jobB = FALSE
    /\ resolved = <<>> /\ fetchedB = {} /\ idx = 1 /\ results = <<>>
    /\ sessionOk = TRUE /\ retB = "none"
    /\ cancelPc = "idle" /\ cancelArg = 0 /\ cancelSaw = "absent"
    /\ cancelRet = "none"
    /\ cancelsLeft = MaxCancels /\ revokeOut = "none"
    /\ revoked = FALSE
    /\ geoCache = [k \in GeoKeys |-> NoEntry]
    /\ limCount = 0 /\ limArmed = FALSE /\ limCallers = {}
    /\ geoSeq = 0 /\ geoRet = NoCall
    /\ fmPc = "idle" /\ fmCb = FALSE /\ fmLib = [src \in Sources |-> "pending"]
    /\ fmFinished = <<>> /\ fmEarly = {} /\ fmQueue = <<>> /\ fmCompleted = 0
    /\ fmData = NoData /\ fmCalls = <<>> /\ fmRet = "none"
    /\ stepEntry = NoStep

\* ------------------------------------------------- create_poster_job
\* The row is committed Pending, then the task is handed to the queue.  When
\* the hand-off raises, the row is marked Failed with error_type QueueError
\* (failed_at is not assigned on that path) and the task never runs.
CreatePosterJob(theme, queued) ==
    /\ pcS = "off"
    /\ jobs' = [jobs EXCEPT ![SingleJob] =
                  IF queued THEN NewJob(theme)
                  ELSE [NewJob(theme) EXCEPT !.status = "failed",
                                             !.error_type = "QueueError",
                                             !.error_message = TRUE]]
    /\ pcS' = IF queued THEN "queued" ELSE "unqueued"
    /\ UNCHANGED <<jobS, posters, rendering, attemptS, stepS, fetchedS, outS, thumbS,
                   retS, batchVars, cancelVars, revoked, sideVars, sessS>>

\* ---------------------------------------------------- generate_poster
\* The retry loop, one iteration in up to three steps.
\* db.session.expire_all() opens the iteration.
S_Expire ==
    /\ pcS = "queued"
    /\ attemptS < MaxAttempts
    /\ pcS' = "get"
    /\ UNCHANGED <<jobS, jobs, posters, rendering, attemptS, stepS, fetchedS, outS,
                   thumbS, retS, batchVars, cancelVars, revoked,
                   sideVars, sessS>>

\* A lookup that marks the job Failed when it gives up.
S_LookupGiveUpMarksFailed(found) ==
    /\ pcS = "get"
    /\ jobS' = found
    /\ IF found THEN pcS' = "start" /\ retS' = retS /\ attemptS' = 0 /\ jobs' = jobs
       ELSE IF attemptS < MaxAttempts - 1
       THEN pcS' = "wait" /\ retS' = retS /\ attemptS' = attemptS /\ jobs' = jobs
       ELSE /\ pcS' = "done" /\ retS' = "not_found" /\ attemptS' = 0
            /\ jobs' = [jobs EXCEPT ![SingleJob].status = "failed"]
    /\ UNCHANGED <<posters, rendering, stepS, fetchedS, outS, thumbS,
                   batchVars, cancelVars, revoked, sideVars, sessS>>

\* One Job.query.get of the retry loop: the row may not be visible yet.
\* attemptS is the loop variable; it is dead after the loop and reset there.
S_Lookup(found) ==
    /\ pcS = "get"
    /\ jobS' = found
    /\ IF found THEN pcS' = "start" /\ retS' = retS /\ attemptS' = 0
       ELSE IF attemptS < MaxAttempts - 1
       THEN pcS' = "wait" /\ retS' = retS /\ attemptS' = attemptS
       ELSE pcS' = "done" /\ retS' = "not_found" /\ attemptS' = 0
    /\ UNCHANGED <<jobs, posters, rendering, stepS, fetchedS, outS, thumbS,
                   batchVars, cancelVars, revoked, sideVars, sessS>>

\* time.sleep(0.5), then the next iteration.
S_Wait ==
    /\ pcS = "wait"
    /\ pcS' = "queued" /\ attemptS' = attemptS + 1
    /\ UNCHANGED <<jobS, jobs, posters, rendering, stepS, fetchedS, outS, thumbS,
                   retS, batchVars, cancelVars, revoked, sideVars, sessS>>

\* job.status = PROCESSING; job.started_at = now; progress_steps = []; commit.
S_Start ==
    /\ pcS = "start"
    /\ jobs' = [jobs EXCEPT ![SingleJob].status = "processing",
                            ![SingleJob].started_at = TRUE,
                            ![SingleJob].progress_steps = <<>>]
    /\ pcS' = "pre" /\ stepS' = 1
    /\ UNCHANGED <<jobS, posters, rendering, attemptS, fetchedS, outS, thumbS, retS,
                   batchVars, cancelVars, revoked, sideVars, sessS>>

\* The checkpoints 5, 10, 20, 25, 30, one update_progress commit each.  From
\* checkpoint 10 on, the statement after the checkpoint reads the job
\* (latitude, theme, city, distance), which raises on an unusable session.
S_Pre(written) ==
    /\ pcS = "pre"
    /\ written => sessS
    /\ jobs' = Progress(jobs, SingleJob, PreFetch[stepS], written)
    /\ sessS' = SessionAfter(sessS, written)
    /\ IF ~sessS' /\ stepS > 1
       THEN pcS' = "except" /\ stepS' = stepS
       ELSE IF stepS < Len(PreFetch)
       THEN pcS' = pcS /\ stepS' = stepS + 1
       ELSE pcS' = "fetch" /\ stepS' = 0
    /\ fetchedS' = {}
    /\ UNCHANGED <<jobS, posters, rendering, attemptS, outS, thumbS, retS,
                   batchVars, cancelVars, revoked, sideVars>>

\* load_theme raised (an unreadable theme file), after checkpoint 20.
S_ThemeRaise ==
    /\ pcS = "pre"
    /\ stepS = 4
    /\ sessS
    /\ pcS' = "except"
    /\ UNCHANGED <<jobS, jobs, posters, rendering, attemptS, stepS, fetchedS, outS,
                   thumbS, retS, batchVars, cancelVars, revoked,
                   sideVars, sessS>>

\* fetch_map_data: as_completed yields the three downloads in completion
\* order; each yields one callback, hence one checkpoint.
S_FetchDone(src, written) ==
    /\ pcS = "fetch"
    /\ src \notin fetchedS
    /\ written => sessS
    /\ fetchedS' = fetchedS \cup {src}
    /\ jobs' = Progress(jobs, SingleJob, FetchPercent(src), written)
    /\ sessS' = SessionAfter(sessS, written)
    /\ UNCHANGED <<jobS, posters, rendering, pcS, attemptS, stepS, outS, thumbS, retS,
                   batchVars, cancelVars, revoked, sideVars>>

\* The street download raised: future.result() re-raises it to the task.
S_FetchFail ==
    /\ pcS = "fetch"
    /\ "streets" \notin fetchedS
    /\ pcS' = "except"
    /\ UNCHANGED <<jobS, jobs, posters, rendering, attemptS, stepS, fetchedS, outS,
                   thumbS, retS, batchVars, cancelVars, revoked,
                   sideVars, sessS>>

\* fetch_map_data returned; get_format_dimensions raised ValueError, or
\* reading its arguments from the job raised on an unusable session.
S_DimsRaise ==
    /\ pcS = "fetch"
    /\ fetchedS = Sources
    /\ pcS' = "except"
    /\ UNCHANGED <<jobS, jobs, posters, rendering, attemptS, stepS, fetchedS, outS,
                   thumbS, retS, batchVars, cancelVars, revoked,
                   sideVars, sessS>>

\* A pipeline that starts rendering as soon as the street network is there.
S_RenderCallEarly ==
    /\ pcS = "fetch"
    /\ "streets" \in fetchedS
    /\ sessS
    /\ pcS' = "render" /\ stepS' = 0
    /\ rendering' = rendering + 1
    /\ UNCHANGED <<jobS, jobs, posters, attemptS, fetchedS, outS, thumbS, retS,
                   batchVars, cancelVars, revoked, sideVars, sessS>>

\* fetch_map_data returned; dimensions computed; render_poster is called.
S_RenderCall ==
    /\ pcS = "fetch"
    /\ fetchedS = Sources
    /\ sessS
    /\ pcS' = "render" /\ stepS' = 0
    /\ rendering' = rendering + 1
    /\ UNCHANGED <<jobS, jobs, posters, attemptS, fetchedS, outS, thumbS, retS,
                   batchVars, cancelVars, revoked, sideVars, sessS>>

\* render_progress_callback: one checkpoint per stage.
S_RenderStage(written) ==
    /\ pcS = "render"
    /\ stepS < Len(RenderStages)
    /\ written => sessS
    /\ stepS' = stepS + 1
    /\ jobs' = Progress(jobs, SingleJob, RenderStages[stepS + 1], written)
    /\ sessS' = SessionAfter(sessS, written)
    /\ UNCHANGED <<jobS, posters, rendering, pcS, attemptS, fetchedS, outS, thumbS,
                   retS, batchVars, cancelVars, revoked, sideVars>>

\* render_poster returned; the file was written or (a warning only) was not.
S_RenderReturn(file) ==
    /\ pcS = "render"
    /\ stepS = Len(RenderStages)
    /\ rendering' = rendering - 1
    /\ outS' = file
    /\ pcS' = "verify"
    /\ UNCHANGED <<jobS, jobs, posters, attemptS, stepS, fetchedS, thumbS, retS,
                   batchVars, cancelVars, revoked, sideVars, sessS>>

\* render_poster raised, at the call or at any stage.
S_RenderRaise ==
    /\ pcS = "render"
    /\ rendering' = rendering - 1
    /\ pcS' = "except"
    /\ UNCHANGED <<jobS, jobs, posters, attemptS, stepS, fetchedS, outS, thumbS, retS,
                   batchVars, cancelVars, revoked, sideVars, sessS>>

\* if not os.path.exists(output_file): raise FileNotFoundError
VerifiedS(file) == file

S_Verify ==
    /\ pcS = "verify"
    /\ pcS' = IF VerifiedS(outS) THEN "thumb" ELSE "except"
    /\ UNCHANGED <<jobS, jobs, posters, rendering, attemptS, stepS, fetchedS, outS,
                   thumbS, retS, batchVars, cancelVars, revoked,
                   sideVars, sessS>>

\* A thumbnail step whose failure reaches the task's except branch.
S_ThumbFatal(ok, written) ==
    /\ pcS = "thumb"
    /\ written => sessS
    /\ jobs' = Progress(jobs, SingleJob, 95, written)
    /\ sessS' = SessionAfter(sessS, written)
    /\ thumbS' = ok
    /\ pcS' = IF ok THEN "final" ELSE "except"
    /\ stepS' = 1
    /\ UNCHANGED <<jobS, posters, rendering, attemptS, fetchedS, outS, retS,
                   batchVars, cancelVars, revoked, sideVars>>

\* Checkpoint 95, then generate_thumbnail, whose failure is only logged.
S_Thumb(ok, written) ==
    /\ pcS = "thumb"
    /\ written => sessS
    /\ jobs' = Progress(jobs, SingleJob, 95, written)
    /\ sessS' = SessionAfter(sessS, written)
    /\ thumbS' = ok
    /\ pcS' = "final" /\ stepS' = 1
    /\ UNCHANGED <<jobS, posters, rendering, attemptS, fetchedS, outS, retS,
                   batchVars, cancelVars, revoked, sideVars>>

\* progress_callback("Complete!", 100), then update_progress(.., 100) again:
\* two commits that precede the commit of the status.
S_Final(written) ==
    /\ pcS = "final"
    /\ written => sessS
    /\ jobs' = Progress(jobs, SingleJob, 100, written)
    /\ sessS' = SessionAfter(sessS, written)
    /\ IF stepS < 2 THEN pcS' = pcS /\ stepS' = stepS + 1
       ELSE pcS' = "commit" /\ stepS' = 0
    /\ UNCHANGED <<jobS, posters, rendering, attemptS, fetchedS, outS, thumbS, retS,
                   batchVars, cancelVars, revoked, sideVars>>

\* status, completed_at and result are assigned, the Poster is added, one commit.
\* The store accepts the commit or its flush raises; a failed flush leaves the
\* session waiting for a rollback, and a session already waiting for one
\* refuses the commit.
S_Commit(accepted) ==
    /\ pcS = "commit"
    /\ accepted => sessS
    /\ IF PosterInsertOk(posters, SingleJob) /\ accepted
       THEN /\ posters' = Append(posters, NewPoster(posters, SingleJob, outS, thumbS))
            /\ jobs' = [jobs EXCEPT ![SingleJob].status = "completed",
                                    ![SingleJob].completed_at = TRUE,
                                    ![SingleJob].result = Len(posters) + 1]
            /\ pcS' = "done" /\ retS' = "completed"
       ELSE /\ pcS' = "except_norollback"
            /\ UNCHANGED <<jobs, posters, retS>>
    /\ UNCHANGED <<jobS, rendering, attemptS, stepS, fetchedS, outS, thumbS,
                   batchVars, cancelVars, revoked, sideVars, sessS>>

\* except Exception: status FAILED, failed_at, error fields; commit.  The
\* handler does no rollback: after a failed flush its own commit raises and
\* the exception leaves the task with nothing written.
S_Except ==
    /\ pcS \in {"except", "except_norollback"}
    /\ IF pcS = "except" /\ sessS
       THEN /\ jobs' = [jobs EXCEPT ![SingleJob].status = "failed",
                                    ![SingleJob].failed_at = TRUE,
                                    ![SingleJob].error_type = "Exception",
                                    ![SingleJob].error_message = TRUE,
                                    ![SingleJob].error_traceback = TRUE]
            /\ retS' = "failed"
       ELSE /\ jobs' = jobs
            /\ retS' = "raised"
    /\ pcS' = "done"
    /\ UNCHANGED <<jobS, posters, rendering, attemptS, stepS, fetchedS, outS, thumbS,
                   batchVars, cancelVars, revoked, sideVars, sessS>>

\* revoke(job_id, terminate=True) reached the worker: a queued task is
\* discarded, a running one is killed where it stands, handlers included.
S_Terminate ==
    /\ revoked
    /\ pcS \notin {"off", "unqueued", "done", "dead"}
    /\ pcS' = "dead"
    /\ rendering' = IF pcS = "render" THEN rendering - 1 ELSE rendering
    /\ UNCHANGED <<jobS, jobs, posters, attemptS, stepS, fetchedS, outS, thumbS, retS,
                   batchVars, cancelVars, revoked, sideVars, sessS>>

SingleRun ==
    \/ \E theme \in Themes, queued \in BOOLEAN : CreatePosterJob(theme, queued)
    \/ S_Expire
    \/ \E found \in BOOLEAN : S_Lookup(found)
    \/ S_Wait
    \/ S_Start
    \/ \E written \in BOOLEAN : S_Pre(written)
    \/ S_ThemeRaise
    \/ \E src \in Sources, written \in BOOLEAN : S_FetchDone(src, written)
    \/ S_FetchFail
    \/ S_DimsRaise
    \/ S_RenderCall
    \/ \E written \in BOOLEAN : S_RenderStage(written)
    \/ \E file \in BOOLEAN : S_RenderReturn(file)
    \/ S_RenderRaise
    \/ S_Verify
    \/ \E ok, written \in BOOLEAN : S_Thumb(ok, written)
    \/ \E written \in BOOLEAN : S_Final(written)
    \/ \E accepted \in BOOLEAN : S_Commit(accepted)
    \/ S_Except

SingleNext == SingleRun \/ S_Terminate

\* --------------------------------------------- create_batch_poster_job
\* One Pending row per entry of themes (repeats are not rejected by
\* create_batch_posters of the API), one commit, then one task for the batch.
\* A failed hand-off marks every row Failed with QueueError.
CreateBatchPosterJob(themes, queued) ==
    /\ pcB = "off"
    /\ jobs' = [j \in JobIds |->
                  IF j - 1 \in 1..Len(themes)
                  THEN IF queued THEN NewJob(themes[j - 1])
                       ELSE [NewJob(themes[j - 1]) EXCEPT !.status = "failed",
                                                          !.error_type = "QueueError",
                                                          !.error_message = TRUE]
                  ELSE jobs[j]]
    /\ batchIds' = [i \in 1..Len(themes) |-> i + 1]
    /\ pcB' = IF queued THEN "queued" ELSE "unqueued"
    /\ UNCHANGED <<jobB, posters, rendering, singleVars, lookAt, attemptB, resolved,
                   fetchedB, idx, results, sessionOk, retB, cancelVars, revoked,
                   sideVars>>

\* ---------------------------------------------- generate_batch_posters
\* themes = [job.theme for job in jobs]
ThemeAt(i) == jobs[resolved[i]].theme

\* generate_filename(city, theme, timestamp) of the batch generator:
\* "<city lower-cased, spaces as underscores>_<theme>_<timestamp>.png".
GenerateFilename(city, theme, timestamp) ==
    <<IF city = "New York" THEN "new_york" ELSE Lower(city), theme, timestamp>>

\* The city of the first job and the timestamp create_batch_posters takes
\* once, after the fetch, for all the posters of the batch.
BatchCity == "Oslo"
BatchStamp == "20260120_172930"

\* output_file of the i-th theme of the render loop.
OutputFile(i) == GenerateFilename(BatchCity, ThemeAt(i), BatchStamp)

\* job_map = {job.theme: job for job in jobs}: the last job of a theme wins.
JobMap(theme) ==
    LET hits == {i \in 1..Len(resolved) : ThemeAt(i) = theme}
    IN  resolved[CHOOSE i \in hits : \A k \in hits : k <= i]

\* The jobs the callbacks can reach.
Mapped == {JobMap(ThemeAt(i)) : i \in 1..Len(resolved)}

\* for theme_name in themes: job_progress_callback(theme_name, .., pct)
FanOut(J, pct) ==
    IF sessionOk
    THEN [j \in JobIds |-> IF j \in Mapped THEN UpdateProgress(J, j, pct)[j] ELSE J[j]]
    ELSE J

\* The retry loop, run for each id of job_ids independently.
\* db.session.expire_all() opens the iteration.
B_Expire ==
    /\ pcB = "queued"
    /\ lookAt <= Len(batchIds)
    /\ attemptB < MaxAttempts
    /\ pcB' = "get"
    /\ UNCHANGED <<jobB, jobs, posters, rendering, singleVars, batchIds, lookAt,
                   attemptB, resolved, fetchedB, idx, results, sessionOk, retB,
                   cancelVars, revoked, sideVars>>

\* A lookup that gives an id up on its first miss.
B_LookupNoRetry(found) ==
    /\ pcB = "get"
    /\ jobB' = found
    /\ resolved' = IF found THEN Append(resolved, batchIds[lookAt]) ELSE resolved
    /\ lookAt' = lookAt + 1 /\ attemptB' = 0 /\ pcB' = "queued"
    /\ UNCHANGED <<jobs, posters, rendering, singleVars, batchIds,
                   fetchedB, idx, results, sessionOk, retB, cancelVars, revoked,
                   sideVars>>

\* Job.query.get(job_id): found (appended to jobs, next id), not found with
\* attempts left (sleep), or not found on the last attempt (next id).
B_Lookup(found) ==
    /\ pcB = "get"
    /\ jobB' = found
    /\ IF found
       THEN /\ resolved' = Append(resolved, batchIds[lookAt])
            /\ lookAt' = lookAt + 1 /\ attemptB' = 0 /\ pcB' = "queued"
       ELSE IF attemptB < MaxAttempts - 1
       THEN pcB' = "wait" /\ UNCHANGED <<resolved, lookAt, attemptB>>
       ELSE /\ lookAt' = lookAt + 1 /\ attemptB' = 0 /\ pcB' = "queued"
            /\ UNCHANGED resolved
    /\ UNCHANGED <<jobs, posters, rendering, singleVars, batchIds,
                   fetchedB, idx, results, sessionOk, retB, cancelVars, revoked,
                   sideVars>>

\* time.sleep(0.5), then the next iteration for the same id.
B_Wait ==
    /\ pcB = "wait"
    /\ pcB' = "queued" /\ attemptB' = attemptB + 1
    /\ UNCHANGED <<jobB, jobs, posters, rendering, singleVars, batchIds, lookAt,
                   resolved, fetchedB, idx, results, sessionOk, retB,
                   cancelVars, revoked, sideVars>>

\* An end of the lookups that reports an empty batch as completed.
B_LookupEndReportsCompleted ==
    /\ pcB = "queued"
    /\ lookAt > Len(batchIds)
    /\ jobB' = FALSE
    /\ IF resolved = <<>>
       THEN pcB' = "done" /\ retB' = "completed"
       ELSE pcB' = "start" /\ retB' = retB
    /\ UNCHANGED <<jobs, posters, rendering, singleVars, batchIds, lookAt,
                   attemptB, resolved, fetchedB, idx, results, sessionOk,
                   cancelVars, revoked, sideVars>>

\* if not jobs: return {'error': 'No jobs found'}
B_LookupEnd ==
    /\ pcB = "queued"
    /\ lookAt > Len(batchIds)
    /\ jobB' = FALSE
    /\ IF resolved = <<>>
       THEN pcB' = "done" /\ retB' = "no_jobs"
       ELSE pcB' = "start" /\ retB' = retB
    /\ UNCHANGED <<jobs, posters, rendering, singleVars, batchIds, lookAt,
                   attemptB, resolved, fetchedB, idx, results, sessionOk,
                   cancelVars, revoked, sideVars>>

\* A start that marks every id of the batch, resolved or not.
B_StartEveryId ==
    /\ pcB = "start"
    /\ jobs' = [j \in JobIds |->
                  IF \E i \in 1..Len(batchIds) : batchIds[i] = j
                  THEN [jobs[j] EXCEPT !.status = "processing", !.started_at = TRUE]
                  ELSE jobs[j]]
    /\ pcB' = "construct"
    /\ UNCHANGED <<jobB, posters, rendering, singleVars, batchIds, lookAt, attemptB,
                   resolved, fetchedB, idx, results, sessionOk, retB,
                   cancelVars, revoked, sideVars>>

\* for job in jobs: status = PROCESSING, started_at = now; one commit.
B_Start ==
    /\ pcB = "start"
    /\ jobs' = [j \in JobIds |->
                  IF \E i \in 1..Len(resolved) : resolved[i] = j
                  THEN [jobs[j] EXCEPT !.status = "processing", !.started_at = TRUE]
                  ELSE jobs[j]]
    /\ pcB' = "construct"
    /\ UNCHANGED <<jobB, posters, rendering, singleVars, batchIds, lookAt, attemptB,
                   resolved, fetchedB, idx, results, sessionOk, retB,
                   cancelVars, revoked, sideVars>>

\* create_batch_posters(city, country, themes, ..) first builds a
\* BatchPosterGenerator, whose constructor makes the output directory; an
\* OSError there is outside every try of the generator and reaches the
\* handler of the task.
B_Construct(ok) ==
    /\ pcB = "construct"
    /\ pcB' = IF ok THEN "coords" ELSE "handler"
    /\ UNCHANGED <<jobB, jobs, posters, rendering, singleVars, batchIds, lookAt,
                   attemptB, resolved, fetchedB, idx, results, sessionOk, retB,
                   cancelVars, revoked, sideVars>>

\* except Exception: for job in jobs: if job.status != COMPLETED: status
\* FAILED, failed_at, error fields; one commit; return status 'failed'.  The
\* rows are read afresh (the start commit expired them).
B_Except ==
    /\ pcB = "handler"
    /\ jobs' = [j \in JobIds |->
                  IF /\ \E i \in 1..Len(resolved) : resolved[i] = j
                     /\ jobs[j].status # "completed"
                  THEN [jobs[j] EXCEPT !.status = "failed",
                                       !.failed_at = TRUE,
                                       !.error_type = "Exception",
                                       !.error_message = TRUE,
                                       !.error_traceback = TRUE]
                  ELSE jobs[j]]
    /\ pcB' = "done" /\ retB' = "failed"
    /\ UNCHANGED <<jobB, posters, rendering, singleVars, batchIds, lookAt, attemptB,
                   resolved, fetchedB, idx, results, sessionOk, cancelVars,
                   revoked, sideVars>>

\* create_batch_posters raised before the render loop: it appends an error
\* result per theme and returns; result_callback is not called for them.
HardFailure ==
    /\ results' = [i \in 1..Len(resolved) |-> [status |-> "error", file |-> FALSE,
                                             error |-> "batch"]]
    /\ pcB' = "done" /\ retB' = "completed"

\* get_coordinates(city, country): found, or ValueError.
B_Coords(ok) ==
    /\ pcB = "coords"
    /\ IF ok THEN pcB' = "p30" /\ UNCHANGED <<results, retB>> ELSE HardFailure
    /\ UNCHANGED <<jobB, jobs, posters, rendering, singleVars, batchIds, lookAt,
                   attemptB, resolved, fetchedB, idx, sessionOk, cancelVars,
                   revoked, sideVars>>

\* "Downloading map data..." 30 for every theme.
B_P30 ==
    /\ pcB = "p30"
    /\ jobs' = FanOut(jobs, 30)
    /\ pcB' = "fetch" /\ fetchedB' = {}
    /\ UNCHANGED <<jobB, posters, rendering, singleVars, batchIds, lookAt, attemptB,
                   resolved, idx, results, sessionOk, retB, cancelVars, revoked,
                   sideVars>>

\* One completed download: the same checkpoint for every theme.
B_FetchDone(src) ==
    /\ pcB = "fetch"
    /\ src \notin fetchedB
    /\ fetchedB' = fetchedB \cup {src}
    /\ jobs' = FanOut(jobs, FetchPercent(src))
    /\ UNCHANGED <<jobB, posters, rendering, singleVars, pcB, batchIds, lookAt,
                   attemptB, resolved, idx, results, sessionOk, retB,
                   cancelVars, revoked, sideVars>>

B_FetchFail ==
    /\ pcB = "fetch"
    /\ "streets" \notin fetchedB
    /\ HardFailure
    /\ UNCHANGED <<jobB, jobs, posters, rendering, singleVars, batchIds, lookAt,
                   attemptB, resolved, fetchedB, idx, sessionOk, cancelVars,
                   revoked, sideVars>>

B_FetchJoin ==
    /\ pcB = "fetch"
    /\ fetchedB = Sources
    /\ pcB' = "t65" /\ idx' = 1
    /\ UNCHANGED <<jobB, jobs, posters, rendering, singleVars, batchIds, lookAt,
                   attemptB, resolved, fetchedB, results, sessionOk, retB,
                   cancelVars, revoked, sideVars>>

\* "Rendering <theme>..." 65, then _render_single_theme calls render_poster.
B_RenderCall ==
    /\ pcB = "t65"
    /\ jobs' = IF sessionOk THEN UpdateProgress(jobs, JobMap(ThemeAt(idx)), 65)
               ELSE jobs
    /\ pcB' = "render"
    /\ rendering' = rendering + 1
    /\ UNCHANGED <<jobB, posters, singleVars, batchIds, lookAt, attemptB, resolved,
                   fetchedB, idx, results, sessionOk, retB, cancelVars, revoked,
                   sideVars>>

\* _render_single_theme: 'success' only when render_poster returned and the
\* output file exists; a raise or a missing file gives an 'error' result,
\* whose message tells which of the two it was.
RenderResult(outcome) ==
    [status |-> IF outcome = "ok" THEN "success" ELSE "error",
     file |-> outcome = "ok",
     error |-> IF outcome = "ok" THEN ""
               ELSE IF outcome = "nofile" THEN "not_created" ELSE "render"]

B_RenderEnd(outcome) ==
    /\ pcB = "render"
    /\ rendering' = rendering - 1
    /\ results' = Append(results, RenderResult(outcome))
    /\ pcB' = "t100"
    /\ UNCHANGED <<jobB, jobs, posters, singleVars, batchIds, lookAt, attemptB,
                   resolved, fetchedB, idx, sessionOk, retB, cancelVars, revoked,
                   sideVars>>

\* job_progress_callback(theme, "Complete! .." or "Failed: ..", 100)
B_T100 ==
    /\ pcB = "t100"
    /\ jobs' = IF sessionOk THEN UpdateProgress(jobs, JobMap(ThemeAt(idx)), 100)
               ELSE jobs
    /\ pcB' = "callback"
    /\ UNCHANGED <<jobB, posters, rendering, singleVars, batchIds, lookAt, attemptB,
                   resolved, fetchedB, idx, results, sessionOk, retB,
                   cancelVars, revoked, sideVars>>

\* result_callback(result), inside the try/except of create_batch_posters.
\* success: Poster added and flushed, job Completed, commit; a rejected insert
\* raises out of the callback and leaves the session unusable (no rollback).
\* error: job Failed, commit.  With an unusable session every access raises.
B_Callback(thumb) ==
    /\ pcB = "callback"
    /\ LET j == JobMap(ThemeAt(idx)) IN
       IF ~sessionOk THEN UNCHANGED <<jobs, posters, sessionOk>>
       ELSE IF results[idx].status = "success"
       THEN IF PosterInsertOk(posters, j)
            THEN /\ posters' = Append(posters, NewPoster(posters, j, results[idx].file, thumb))
                 /\ jobs' = [jobs EXCEPT ![j].status = "completed",
                                         ![j].completed_at = TRUE,
                                         ![j].progress = 100,
                                         ![j].result = Len(posters) + 1]
                 /\ UNCHANGED sessionOk
            ELSE sessionOk' = FALSE /\ UNCHANGED <<jobs, posters>>
       ELSE /\ jobs' = [jobs EXCEPT ![j].status = "failed",
                                    ![j].failed_at = TRUE,
                                    ![j].error_type = "BatchGenerationError",
                                    ![j].error_message = TRUE,
                                    ![j].progress = 100]
            /\ UNCHANGED <<posters, sessionOk>>
    /\ IF idx < Len(resolved)
       THEN idx' = idx + 1 /\ pcB' = "t65" /\ retB' = retB
       ELSE idx' = idx /\ pcB' = "done" /\ retB' = "completed"
    /\ UNCHANGED <<jobB, rendering, singleVars, batchIds, lookAt, attemptB, resolved,
                   fetchedB, results, cancelVars, revoked, sideVars>>

ThemeLists == UNION {[1..n -> Themes] : n \in 1..MaxThemes}

BatchNext ==
    \/ \E themes \in ThemeLists, queued \in BOOLEAN : CreateBatchPosterJob(themes, queued)
    \/ B_Expire
    \/ \E found \in BOOLEAN : B_Lookup(found)
    \/ B_Wait
    \/ B_LookupEnd
    \/ B_Start
    \/ \E ok \in BOOLEAN : B_Construct(ok)
    \/ B_Except
    \/ \E ok \in BOOLEAN : B_Coords(ok)
    \/ B_P30
    \/ \E src \in Sources : B_FetchDone(src)
    \/ B_FetchFail
    \/ B_FetchJoin
    \/ B_RenderCall
    \/ \E outcome \in {"ok", "nofile", "raise"} : B_RenderEnd(outcome)
    \/ B_T100
    \/ \E thumb \in BOOLEAN : B_Callback(thumb)

\* ------------------------------------------------------------ cancel_job
\* A status test that also lets a Completed job through.
CancelEligibleAlsoCompleted(status) == status \in {"pending", "processing", "completed"}

\* if job.status in [PENDING, PROCESSING]
CancelEligible(status) == status \in {"pending", "processing"}

\* A revoke whose error is not caught and whose absence is not skipped.
CancelProceedsIfRevoked(out) == out = "ok"

\* The revoke sits in try/except Exception, and a missing celery extension is
\* skipped: control reaches the status update whatever the outcome.
CancelProceeds(out) == out \in {"ok", "error", "nocelery"}

\* Job.query.get, the status test and the revoke attempt.  The task id of a
\* single job is its job id; a batch task's id is the batch id, which no
\* cancel_job call names.
CancelCall(j, out) ==
    /\ cancelPc = "idle"
    /\ cancelsLeft > 0
    /\ cancelsLeft' = cancelsLeft - 1
    /\ cancelArg' = j
    /\ cancelSaw' = jobs[j].status
    /\ IF Exists(jobs, j) /\ CancelEligible(jobs[j].status)
       THEN /\ revokeOut' = out
            /\ revoked' = (revoked \/ (out = "ok" /\ j = SingleJob))
            /\ IF CancelProceeds(out)
               THEN cancelPc' = "commit" /\ cancelRet' = "none"
               ELSE cancelPc' = "idle" /\ cancelRet' = "raised"
       ELSE /\ cancelPc' = "idle" /\ cancelRet' = "false"
            /\ UNCHANGED <<revokeOut, revoked>>
    /\ UNCHANGED <<jobs, posters, rendering, singleVars, batchVars, sideVars>>

\* job.status = CANCELLED; job.failed_at = now; commit; return True.
CancelCommit ==
    /\ cancelPc = "commit"
    /\ jobs' = [jobs EXCEPT ![cancelArg].status = "cancelled",
                            ![cancelArg].failed_at = TRUE]
    /\ cancelPc' = "idle" /\ cancelRet' = "true"
    /\ UNCHANGED <<posters, rendering, singleVars, batchVars, cancelArg,
                   cancelSaw, cancelsLeft, revokeOut, revoked, sideVars>>

CancelNext ==
    \/ \E j \in JobIds, out \in {"ok", "error", "nocelery"} : CancelCall(j, out)
    \/ CancelCommit

\* ------------------------------------------------- GeocodingService.geocode
\* One call.  cacheGet, limiter and cacheSet are what the store does on the
\* three occasions the call may use it; resolver is what Nominatim answers.
\*   cache read:  a hit returns the stored result with cached = True; a miss
\*                or a store error goes on to the limiter;
\*   limiter:     INCR, then EXPIRE when the counter was just created; an
\*                error in either lets the call through;
\*   resolver:    a location, nothing (None is returned), or a geocoder error
\*                (GeocodingError is raised);
\*   cache write: after a location only; an error is logged.
\* The outcome of an occasion the call does not reach is not enumerated.
Geocode(city, country, caller, cacheGet, limiter, resolver, cacheSet) ==
    LET key == CacheKey(city, country)
        hit == cacheGet = "ok" /\ geoCache[key] # NoEntry
        read == IF hit THEN "hit" ELSE IF cacheGet = "ok" THEN "miss" ELSE "error"
        current == limCount + 1
        allowed == CheckRateLimit(limiter, current)
    IN
    /\ limCount < RateLimitMax + MaxOver
    /\ limiter = "expire_raises" => current = 1
    /\ hit => limiter = "ok"
    /\ (hit \/ ~allowed) => resolver = "location"
    /\ (hit \/ ~allowed \/ resolver # "location") => cacheSet = "ok"
    /\ geoSeq' = (geoSeq + 1) % 2
    /\ IF hit
       THEN /\ geoRet' = GeoCall(city, country, caller, read, "none", FALSE,
                                 "none", "cached")
            /\ UNCHANGED <<geoCache, limCount, limArmed, limCallers>>
       ELSE /\ limCount' = IF limiter = "incr_raises" THEN limCount ELSE current
            /\ limArmed' = IF limiter = "ok" /\ current = 1 THEN TRUE ELSE limArmed
            /\ limCallers' = IF limiter = "ok" /\ allowed
                             THEN limCallers \cup {caller} ELSE limCallers
            /\ IF ~allowed
               THEN /\ geoRet' = GeoCall(city, country, caller, read, limiter, FALSE,
                                         "none", "RateLimitExceeded")
                    /\ UNCHANGED geoCache
               ELSE IF resolver = "location"
               THEN /\ geoCache' = Setex(geoCache, key, city, country, resolver,
                                         cacheSet)
                    /\ geoRet' = GeoCall(city, country, caller, read, limiter, TRUE,
                                         IF cacheSet = "ok" THEN "ok" ELSE "error",
                                         "fresh")
               ELSE /\ geoRet' = GeoCall(city, country, caller, read, limiter, TRUE,
                                         "none",
                                         IF resolver = "nothing" THEN "None"
                                         ELSE "GeocodingError")
                    /\ geoCache' = Setex(geoCache, key, city, country, resolver,
                                         cacheSet)
    /\ UNCHANGED <<jobVars, fetchVars, entryVars>>

\* The counter's 60 seconds are over: the store drops the key.
WindowElapse ==
    /\ limCount > 0
    /\ limArmed
    /\ limCount' = 0 /\ limArmed' = FALSE /\ limCallers' = {}
    /\ UNCHANGED <<geoCache, geoSeq, geoRet, jobVars, fetchVars, entryVars>>

\* The 30 days of a cached result are over: the store drops the key.
CacheExpire(key) ==
    /\ geoCache[key] # NoEntry
    /\ geoCache' = [geoCache EXCEPT ![key] = NoEntry]
    /\ UNCHANGED <<limCount, limArmed, limCallers, geoSeq, geoRet, jobVars,
                   fetchVars, entryVars>>

GeoNext ==
    \/ \E city \in Cities, country \in Countries, caller \in Callers,
          cacheGet \in {"ok", "raises"},
          limiter \in {"ok", "incr_raises", "expire_raises"},
          resolver \in {"location", "nothing", "error"},
          cacheSet \in {"ok", "raises"} :
            Geocode(city, country, caller, cacheGet, limiter, resolver, cacheSet)
    \/ WindowElapse
    \/ \E key \in GeoKeys : CacheExpire(key)

\* ------------------------------------------------------- fetch_map_data
\* The call: the three downloads are submitted to the pool.
FM_Call(cb) ==
    /\ fmPc = "idle"
    /\ fmPc' = "submitted" /\ fmCb' = cb
    /\ fmLib' = [src \in Sources |-> "pending"]
    /\ fmFinished' = <<>> /\ fmEarly' = {} /\ fmQueue' = <<>> /\ fmCompleted' = 0
    /\ fmData' = NoData /\ fmCalls' = <<>> /\ fmRet' = "none"
    /\ UNCHANGED <<jobVars, geoVars, entryVars>>

\* A download thread ends.  Once as_completed is waiting, the future joins
\* the waiter's list, which is yielded in finishing order.
FM_Finish(src, lib) ==
    /\ fmPc \in {"submitted", "collecting", "raising"}
    /\ fmLib[src] = "pending"
    /\ lib \in LibOutcomes(src)
    /\ fmLib' = [fmLib EXCEPT ![src] = lib]
    /\ fmFinished' = Append(fmFinished, src)
    /\ fmQueue' = IF fmPc = "collecting" THEN Append(fmQueue, src) ELSE fmQueue
    /\ UNCHANGED <<fmPc, fmCb, fmEarly, fmCompleted, fmData, fmCalls, fmRet, jobVars,
                   geoVars, entryVars>>

\* as_completed starts: the futures that are finished already are taken from
\* a set, so they are yielded in an order of the set's choosing.
FM_Enter(order) ==
    /\ fmPc = "submitted"
    /\ fmEarly' = {src \in Sources : fmLib[src] # "pending"}
    /\ order \in Orders(fmEarly')
    /\ fmPc' = "collecting"
    /\ fmQueue' = order
    /\ UNCHANGED <<fmCb, fmLib, fmFinished, fmCompleted, fmData, fmCalls, fmRet,
                   jobVars, geoVars, entryVars>>

\* One turn of the collection loop: count, take the result (which re-raises
\* the download's exception), store it, report it.
FM_Collect ==
    /\ fmPc = "collecting"
    /\ fmQueue # <<>>
    /\ LET src == Head(fmQueue)
           data == FetchResult(src, fmLib[src])
           raised == data = "raises"
       IN /\ fmQueue' = Tail(fmQueue)
          /\ fmCompleted' = Completed(fmCompleted)
          /\ IF raised
             THEN /\ fmPc' = "raising"
                  /\ UNCHANGED <<fmData, fmCalls>>
             ELSE /\ fmData' = [fmData EXCEPT ![DataKey(src)] = data]
                  /\ fmCalls' = IF fmCb
                                THEN Append(fmCalls, <<src, fmCompleted', 3>>)
                                ELSE fmCalls
                  /\ fmPc' = IF \A k \in DOMAIN fmData' : fmData'[k] # "unset"
                             THEN "bounds" ELSE "collecting"
    /\ UNCHANGED <<fmCb, fmLib, fmFinished, fmEarly, fmRet, jobVars, geoVars, entryVars>>

\* The exception leaves the with block once the pool has shut down, that
\* is once every download thread has ended.
FM_Raise ==
    /\ fmPc = "raising"
    /\ \A src \in Sources : fmLib[src] # "pending"
    /\ fmPc' = "idle" /\ fmRet' = "raised"
    /\ UNCHANGED <<fmCb, fmLib, fmFinished, fmEarly, fmQueue, fmCompleted, fmData,
                   fmCalls, jobVars, geoVars, entryVars>>

\* The bounds are taken from the graph and map_data is returned.
FM_Return ==
    /\ fmPc = "bounds"
    /\ fmPc' = "idle" /\ fmRet' = "bundle"
    /\ UNCHANGED <<fmCb, fmLib, fmFinished, fmEarly, fmQueue, fmCompleted, fmData,
                   fmCalls, jobVars, geoVars, entryVars>>

FetchNext ==
    \/ \E cb \in BOOLEAN : FM_Call(cb)
    \/ \E src \in Sources, lib \in {"graph", "features", "empty", "raises"} :
          FM_Finish(src, lib)
    \/ \E order \in Orders(Sources) \cup Orders({}) \cup
                     UNION {Orders(Sources \ {src}) : src \in Sources} \cup
                     UNION {Orders({src}) : src \in Sources} : FM_Enter(order)
    \/ FM_Collect
    \/ FM_Raise
    \/ FM_Return

\* ------------------------------------------------------------------ Spec
\* ------------------------------------------------------ update_progress
\* The record an update_progress(job_id, step, progress) call with
\* add_to_steps builds for the text it was given.
UP_Entry(step, progress) ==
    /\ stepEntry = NoStep
    /\ stepEntry' = StepEntry(step, progress)
    /\ UNCHANGED <<jobVars, geoVars, fetchVars>>

\* The record is appended, the commit is made and the call returns.
UP_Return ==
    /\ stepEntry # NoStep
    /\ stepEntry' = NoStep
    /\ UNCHANGED <<jobVars, geoVars, fetchVars>>

EntryNext ==
    \/ \E step \in StepTexts, progress \in Percents : UP_Entry(step, progress)
    \/ UP_Return

Next == SingleNext \/ BatchNext \/ CancelNext \/ GeoNext \/ FetchNext \/ EntryNext

\* Both tasks and the caller of cancel_job.
Spec == Init /\ [][Next]_vars

\* generate_poster and the caller of cancel_job.
SpecSingle == Init /\ [][SingleNext \/ CancelNext]_vars

\* The worker keeps running the task it took: every call the task makes
\* returns or raises, and the task takes its next step.
SpecSingleFair == SpecSingle /\ WF_vars(SingleRun)

\* generate_batch_posters and the caller of cancel_job.
SpecBatch == Init /\ [][BatchNext \/ CancelNext]_vars

\* The two tasks side by side, nobody cancelling.
SpecTasks == Init /\ [][SingleRun \/ BatchNext]_vars

\* generate_batch_posters on its own.
SpecBatchAlone == Init /\ [][BatchNext]_vars

\* The geocoding service and its two stores.
SpecGeo == Init /\ [][GeoNext]_vars

\* The geocoding service with time passing: a counter key that has a time to
\* live is eventually dropped by the store.
SpecGeoFair == SpecGeo /\ WF_vars(WindowElapse)

\* One caller of fetch_map_data and the three download threads.
SpecFetch == Init /\ [][FetchNext]_vars

\* update_progress building step records for the texts it is given.
SpecEntry == Init /\ [][EntryNext]_vars

\* ---------------------------------------------------------------- claims
Members == {batchIds[i] : i \in 1..Len(batchIds)}
PostersOf(j) == {k \in 1..Len(posters) : posters[k].job_id = j}

\* C1: at most one render_poster call is in flight at any time, across the
\* generate_poster and generate_batch_posters invocations running side by side.
C1_RenderExclusive == rendering <= 1

\* C2: the stored progress of a job never decreases from one committed update
\* to the next, whatever order the three downloads complete in.
C2_ProgressNonDecreasing ==
    [][\A j \in JobIds : jobs'[j].progress >= jobs[j].progress]_vars

\* C3: once a job's stored status is Completed, Failed or Cancelled, no later
\* step changes it.
C3_TerminalAbsorbing ==
    [][\A j \in JobIds :
         jobs[j].status \in Terminal => jobs'[j].status = jobs[j].status]_vars

\* C4: a job that was started and whose status is terminal has exactly one of
\* completed_at and failed_at: completed_at for Completed, failed_at for
\* Failed and Cancelled.
C4_ExactlyOneTimestamp ==
    \A j \in JobIds :
        (jobs[j].started_at /\ jobs[j].status \in Terminal) =>
            /\ jobs[j].completed_at = (jobs[j].status = "completed")
            /\ jobs[j].failed_at = (jobs[j].status \in {"failed", "cancelled"})

\* C5: a cancel_job call on a job that does not exist or is Completed, Failed
\* or Cancelled returns false at once and changes no job row and no poster row.
C5_CancelNoOp ==
    [][(cancelsLeft' = cancelsLeft - 1
        /\ jobs[cancelArg'].status \in {"absent", "completed", "failed", "cancelled"})
       => (/\ cancelRet' = "false"
           /\ cancelPc' = "idle"
           /\ jobs' = jobs
           /\ posters' = posters)]_vars

\* C5 witness: a call that found the job Completed has returned false.
C5_Witness == cancelRet = "false" /\ cancelSaw = "completed"

\* C6: a cancel_job call that finds the job Pending or Processing goes on to
\* the status update whatever the revoke attempt did, and that update stores
\* Cancelled with failed_at and returns true.
C6_CancelUnconditional ==
    [][/\ (cancelsLeft' = cancelsLeft - 1
           /\ jobs[cancelArg'].status \in {"pending", "processing"})
          => cancelPc' = "commit"
       /\ (cancelPc = "commit" /\ cancelPc' = "idle")
          => (/\ jobs'[cancelArg].status = "cancelled"
              /\ jobs'[cancelArg].failed_at
              /\ cancelRet' = "true")]_vars

\* C6 witness: the revoke attempt raised, and the call still stored Cancelled
\* and returned true.
C6_Witness ==
    /\ cancelRet = "true"
    /\ revokeOut = "error"
    /\ jobs[cancelArg].status = "cancelled"
    /\ jobs[cancelArg].failed_at

\* C7: in every committed state a job's result is set exactly when its status
\* is Completed.
C7_ResultIffCompleted ==
    \A j \in JobIds :
        Exists(jobs, j) => ((jobs[j].result # 0) <=> (jobs[j].status = "completed"))

\* C8: in every committed state the number of Poster rows of the batch is at
\* most N and equals the number of member jobs whose status is Completed.
C8_PosterCountIsCompletedCount ==
    LET rows == UNION {PostersOf(j) : j \in Members}
        done == {j \in Members : jobs[j].status = "completed"}
    IN  /\ Cardinality(rows) <= Len(batchIds)
        /\ Cardinality(rows) = Cardinality(done)

\* C9: no job has two Poster rows, and every Poster row was created for an
\* output file that was verified to exist, in the commit that marked its job
\* completed.
C9_OnePosterPerJob ==
    /\ \A j \in JobIds : Cardinality(PostersOf(j)) <= 1
    /\ \A k \in 1..Len(posters) :
        /\ posters[k].file
        /\ jobs[posters[k].job_id].completed_at
        /\ jobs[posters[k].job_id].result # 0

\* C9 witness: a batch with a repeated theme rendered it twice with success;
\* the second insert for the same job was rejected and one row exists.
C9_Witness ==
    /\ ~sessionOk
    /\ Len(results) = 2
    /\ results[1].status = "success" /\ results[2].status = "success"
    /\ Len(posters) = 1

\* C10: when the render loop of a batch has run and nobody cancelled, the job
\* of every theme whose render failed is Failed and the job of every theme
\* whose render succeeded is Completed with a Poster row of its own.
C10_FailureIsolated ==
    (pcB = "done" /\ fetchedB = Sources /\ cancelsLeft = MaxCancels) =>
        \A i \in 1..Len(resolved) :
            /\ results[i].status = "error" => jobs[resolved[i]].status = "failed"
            /\ results[i].status = "success" =>
                /\ jobs[resolved[i]].status = "completed"
                /\ Cardinality(PostersOf(resolved[i])) = 1

\* C11: when the coordinate lookup or the street download of a batch failed
\* and the task has returned (nobody cancelling), every resolved member job
\* is Failed with failed_at, an error type and an error message.
C11_HardFailureMarksFailed ==
    (pcB = "done" /\ retB = "completed" /\ "streets" \notin fetchedB
         /\ cancelsLeft = MaxCancels) =>
        \A i \in 1..Len(resolved) :
            /\ jobs[resolved[i]].status = "failed"
            /\ jobs[resolved[i]].failed_at
            /\ jobs[resolved[i]].error_type # ""
            /\ jobs[resolved[i]].error_message

\* C12: the step of generate_poster that handles an error raised after the
\* job entered Processing stores Failed with failed_at, error type, message
\* and trace, and leaves the stored progress_steps as they were.
C12_ErrorMovesToFailed ==
    [][(pcS \in {"except", "except_norollback"} /\ pcS' = "done") =>
          /\ jobs'[SingleJob].status = "failed"
          /\ jobs'[SingleJob].failed_at
          /\ jobs'[SingleJob].error_type # ""
          /\ jobs'[SingleJob].error_message
          /\ jobs'[SingleJob].error_traceback
          /\ jobs'[SingleJob].progress_steps = jobs[SingleJob].progress_steps]_vars

\* C13: a job whose hand-off to the task queue failed (every job of such a
\* batch) is Failed with error type QueueError, an error message and
\* failed_at, and was never started.
C13_QueueErrorRecorded ==
    /\ pcS = "unqueued" =>
        /\ jobs[SingleJob].status = "failed"
        /\ jobs[SingleJob].error_type = "QueueError"
        /\ jobs[SingleJob].error_message
        /\ jobs[SingleJob].failed_at
        /\ ~jobs[SingleJob].started_at
    /\ pcB = "unqueued" =>
        \A j \in Members :
            /\ jobs[j].status = "failed"
            /\ jobs[j].error_type = "QueueError"
            /\ jobs[j].error_message
            /\ jobs[j].failed_at
            /\ ~jobs[j].started_at

\* C14: while generate_poster is looking the job up, and when it gives up
\* after the last attempt, it writes no job row and no poster row and starts
\* no download and no render; giving up returns the not-found error.
C14_LookupExhaustedWritesNothing ==
    /\ [][(pcS \in {"queued", "get", "wait"} /\ pcS' \in {"queued", "get", "wait", "done"}
           /\ pcS' # pcS) =>
             /\ jobs' = jobs /\ posters' = posters
             /\ rendering' = rendering /\ fetchedS' = fetchedS
             /\ (pcS' = "done" => retS' = "not_found" /\ ~jobS')]_vars
    /\ [](retS = "not_found" =>
             /\ pcS = "done" /\ fetchedS = {} /\ ~outS
             /\ ~jobs[SingleJob].started_at
             /\ jobs[SingleJob].progress = 0
             /\ PostersOf(SingleJob) = {})

\* C14 witness: the fifth lookup found nothing and the task returned the error.
C14_Witness == pcS = "done" /\ retS = "not_found" /\ ~jobS

\* C15: both lookup loops make at most 5 attempts, each attempt directly
\* preceded by the cache invalidation; a wait happens only after a miss that
\* is not the last attempt and is followed by the next attempt; a hit ends the
\* loop for that id at once and the job is processed; only the fifth miss
\* gives the id up.
C15_LookupDiscipline ==
    [][/\ attemptS < MaxAttempts /\ attemptB < MaxAttempts
       /\ (pcS' = "get" /\ pcS # "get") => pcS = "queued"
       /\ (pcS = "get" /\ pcS' # "get") =>
            /\ jobS' => (pcS' = "start" /\ retS' = "none")
            /\ (~jobS' /\ attemptS < MaxAttempts - 1) => pcS' = "wait"
            /\ (~jobS' /\ attemptS = MaxAttempts - 1) => pcS' = "done"
       /\ (pcS = "wait" /\ pcS' # "wait") =>
            (pcS' = "queued" /\ attemptS' = attemptS + 1 /\ attemptS' < MaxAttempts)
       /\ (pcB' = "get" /\ pcB # "get") => pcB = "queued"
       /\ (pcB = "get" /\ pcB' # "get") =>
            /\ jobB' => /\ resolved' = Append(resolved, batchIds[lookAt])
                        /\ lookAt' = lookAt + 1 /\ pcB' = "queued"
            /\ (~jobB' /\ attemptB < MaxAttempts - 1) =>
                   (pcB' = "wait" /\ lookAt' = lookAt /\ resolved' = resolved)
            /\ (~jobB' /\ attemptB = MaxAttempts - 1) =>
                   (pcB' = "queued" /\ lookAt' = lookAt + 1 /\ resolved' = resolved)
       /\ (pcB = "wait" /\ pcB' # "wait") =>
            (pcB' = "queued" /\ attemptB' = attemptB + 1 /\ lookAt' = lookAt
             /\ attemptB' < MaxAttempts)
       /\ (pcB = "queued" /\ pcB' = "start") => resolved # <<>>]_vars

\* C15 witness: both loops are on their fifth attempt after four misses and
\* four waits, the batch loop on its second id after resolving the first.
C15_Witness ==
    /\ pcS = "get" /\ attemptS = MaxAttempts - 1
    /\ pcB = "get" /\ attemptB = MaxAttempts - 1
    /\ Len(resolved) = 1 /\ lookAt = 2

\* C16: a batch none of whose ids was resolved returns the no-jobs error and
\* has written no job row and no poster row and started no download or render.
C16_NoJobsFound ==
    /\ [][(pcB = "queued" /\ pcB' \notin {"queued", "get"}) =>
            IF resolved = <<>>
            THEN /\ pcB' = "done" /\ retB' = "no_jobs"
                 /\ jobs' = jobs /\ posters' = posters
            ELSE pcB' = "start"]_vars
    /\ [](retB = "no_jobs" =>
            /\ pcB = "done" /\ resolved = <<>> /\ fetchedB = {} /\ results = <<>>
            /\ posters = <<>>
            /\ \A j \in Members :
                 /\ ~jobs[j].started_at /\ jobs[j].progress = 0
                 /\ jobs[j].status \in {"pending", "cancelled"})

\* C16 witness: a batch of two ids, both given up, returned the error.
C16_Witness == retB = "no_jobs" /\ Len(batchIds) = 2 /\ resolved = <<>>

\* C17: no committed state shows the single job with progress 100 while its
\* status is still Processing, and none shows it Completed without its
\* Poster row and a result that references that row.
C17_SuccessAtomic ==
    /\ ~(jobs[SingleJob].status = "processing" /\ jobs[SingleJob].progress = 100)
    /\ jobs[SingleJob].status = "completed" =>
        /\ PostersOf(SingleJob) # {}
        /\ jobs[SingleJob].result \in {posters[k].id : k \in PostersOf(SingleJob)}

\* C18: the status view of every Failed job carries a non-empty error type and
\* retry_allowed = true.
C18_FailedViewHasError ==
    \A j \in JobIds :
        jobs[j].status = "failed" =>
            /\ "error" \in DOMAIN ToDict(jobs[j])
            /\ ToDict(jobs[j])["error"] # ""
            /\ "retry_allowed" \in DOMAIN ToDict(jobs[j])
            /\ ToDict(jobs[j])["retry_allowed"] = TRUE

\* The store holds a live result for the pair of the call, spellings compared
\* without regard to case.
KnownPair(cache, city, country) ==
    \E k \in GeoKeys :
        /\ cache[k] # NoEntry
        /\ Lower(cache[k].city) = Lower(city)
        /\ Lower(cache[k].country) = Lower(country)

\* C19 (as stated): a geocode call for a pair whose result was cached and has
\* not expired returns cached = true and makes no resolver call.
C19_CachedPairHits ==
    [][(geoSeq' # geoSeq /\ KnownPair(geoCache, geoRet'.city, geoRet'.country)) =>
          (geoRet'.result = "cached" /\ ~geoRet'.upstream)]_vars

\* C19 (amended): a geocode call for a pair whose result was cached and has
\* not expired, and whose cache read does not fail, returns cached = true and
\* makes no resolver call, no limiter call and no cache write.
C19_CachedPairHitsWhenReadable ==
    [][(geoSeq' # geoSeq /\ KnownPair(geoCache, geoRet'.city, geoRet'.country)
        /\ geoRet'.read # "error") =>
          /\ geoRet'.result = "cached" /\ ~geoRet'.upstream
          /\ geoCache' = geoCache /\ limCount' = limCount]_vars

\* C19 witness: "oslo", "no" was answered from the entry stored for "Oslo", "NO".
C19_Witness ==
    /\ geoRet.result = "cached" /\ geoRet.city = "oslo" /\ geoRet.country = "no"
    /\ geoCache[<<"oslo", "no">>] =
          [city |-> "Oslo", country |-> "NO", ttl |-> CacheTtl]

\* C20: a call that missed the cache and whose limiter check worked, on a
\* counter that has its 60 seconds to live, is the (limCount + 1)-th of the
\* window: up to the 10th it reaches the resolver, from the 11th on it raises
\* RateLimitExceeded with no resolver call and no cache write, whoever calls.
C20_FixedWindowQuota ==
    [][(geoSeq' # geoSeq /\ geoRet'.limiter = "ok" /\ limArmed') =>
          /\ limCount' = limCount + 1
          /\ limCount' <= RateLimitMax =>
                /\ geoRet'.upstream
                /\ geoRet'.result \in {"fresh", "None", "GeocodingError"}
                /\ geoRet'.caller \in limCallers'
          /\ limCount' > RateLimitMax =>
                /\ geoRet'.result = "RateLimitExceeded"
                /\ ~geoRet'.upstream
                /\ geoCache' = geoCache
                /\ limCallers' = limCallers]_vars

\* C20 witness: caller "a" used the ten permits of the window and the 11th
\* call, the first by caller "b", was refused.
C20_Witness ==
    /\ geoRet.result = "RateLimitExceeded" /\ geoRet.caller = "b"
    /\ limCallers = {"a"} /\ limCount = RateLimitMax + 1 /\ limArmed

\* C21: the limiter always recovers: whenever the counter exists, its window
\* eventually elapses and the counter is back at zero, so that the next
\* cache-missing call is permitted.
C21_LimiterRecovers == (limCount > 0) ~> (limCount = 0)

Absent == {"None", "empty"}
C30_CallbacksInCompletionOrder ==
    (fmPc = "idle" /\ fmRet = "bundle" /\ fmCb) =>
        fmCalls = [i \in 1..3 |-> <<fmFinished[i], i, 3>>]

\* C30 amended: on a call with a callback that returns, the callback has fired
\* three times, once per source, with the counter 1, 2, 3 and total 3, and
\* two sources are reported in the order they finished unless both had
\* finished before the collection loop began.
FinishedAt(src) == CHOOSE i \in DOMAIN fmFinished : fmFinished[i] = src
C30_CallbacksInCollectionOrder ==
    (fmPc = "idle" /\ fmRet = "bundle" /\ fmCb) =>
        /\ Len(fmCalls) = 3
        /\ {fmCalls[i][1] : i \in 1..3} = Sources
        /\ \A i \in 1..3 : fmCalls[i][2] = i /\ fmCalls[i][3] = 3
        /\ \A i, j \in 1..3 :
              i < j => \/ {fmCalls[i][1], fmCalls[j][1]} \subseteq fmEarly
                       \/ FinishedAt(fmCalls[i][1]) < FinishedAt(fmCalls[j][1])
C30_Witness ==
    /\ fmPc = "idle" /\ fmRet = "bundle" /\ fmCb
    /\ fmEarly = {"parks"}
    /\ fmFinished = <<"parks", "water", "streets">>
    /\ fmCalls = <<<<"parks", 1, 3>>, <<"water", 2, 3>>, <<"streets", 3, 3>>>>

\* C24: a thumbnail failure never fails the job.  In generate_poster the step
\* after generate_thumbnail is the final checkpoint whatever the thumbnailer
\* did, and the commit that follows completes the job with a Poster whose
\* thumbnail is the one obtained, null included.  In the batch, the result
\* handling of a rendered theme whose Poster the store accepts completes the
\* job and adds its Poster whatever the thumbnailer did.
C24_ThumbnailFailureNotFatal ==
    [][/\ (pcS = "thumb" /\ pcS' # "thumb") =>
              /\ pcS' = "final"
              /\ jobs'[SingleJob].status = jobs[SingleJob].status
       /\ (pcS = "commit" /\ pcS' = "done") =>
              /\ jobs'[SingleJob].status = "completed"
              /\ posters' = Append(posters,
                                   NewPoster(posters, SingleJob, outS, thumbS))
       /\ (/\ pcB = "callback" /\ pcB' # "callback" /\ sessionOk
           /\ results[idx].status = "success"
           /\ PosterInsertOk(posters, JobMap(ThemeAt(idx)))) =>
              /\ jobs'[JobMap(ThemeAt(idx))].status = "completed"
              /\ Len(posters') = Len(posters) + 1
              /\ posters'[Len(posters')].job_id = JobMap(ThemeAt(idx))]_vars
C24_Witness ==
    \E a, b \in 1..Len(posters) :
        /\ posters[a].job_id = SingleJob /\ ~posters[a].thumbnail
        /\ posters[b].job_id # SingleJob /\ ~posters[b].thumbnail
        /\ jobs[SingleJob].status = "completed"
        /\ jobs[posters[b].job_id].status = "completed"
        /\ retS = "completed" /\ retB = "completed"

\* C25: a failed update_progress is swallowed and changes nothing but the
\* progress shown: the run ends as it would have ended had the update been
\* written.  In particular generate_poster never ends by raising, its job
\* left unfinished, on account of a progress update that failed.
C25_UpdateFailureHarmless ==
    (pcS = "done" /\ retS = "raised") => sessS

\* C26: one batch run downloads the map data once, before any render, and
\* makes no geocoding lookup of its own.  The download is complete when a
\* render starts and is never started again; the step that obtains the
\* coordinates takes them from the first job, so it cannot fail and the run
\* goes on from it to the download with no result recorded.
C26_FetchOnceNoLookup ==
    [][/\ pcB' = "render" => fetchedB' = Sources
       /\ fetchedB \subseteq fetchedB'
       /\ (pcB = "coords" /\ pcB' # "coords") =>
              (pcB' = "p30" /\ results' = results)]_vars

\* C27: the themes of a batch are rendered one after another in list order,
\* and when the render of a theme starts, the job of every earlier theme is
\* committed in a terminal state, with its Poster when it is Completed.
C27_CommittedBeforeNextRender ==
    [][/\ idx' \in {idx, idx + 1}
       /\ (pcB = "t65" /\ pcB' = "render") =>
              \A k \in 1..(idx - 1) :
                 /\ jobs[resolved[k]].status \in Terminal
                 /\ jobs[resolved[k]].status = "completed" =>
                       \E n \in 1..Len(posters) :
                          posters[n].job_id = resolved[k]]_vars

\* C28: when generate_batch_posters has returned, every member job it
\* resolved is Completed, Failed or Cancelled; none is left Processing.
C28_AllTerminalOnReturn ==
    (pcB = "done" /\ retB # "none") =>
        \A i \in 1..Len(resolved) : jobs[resolved[i]].status \in Terminal

\* C29: the checkpoints of generate_poster are written in the pipeline order:
\* 5, 10, 20, 25, 30; then 40, 50 and 60, each when its own source has just
\* been collected, in any order; then 65, 70, 75, 80, 85, 90; then 95 and 100.
\* No render checkpoint is written before all three sources are collected.
CheckpointAfter(p) ==
    IF p = 0 THEN {5} ELSE IF p = 5 THEN {10} ELSE IF p = 10 THEN {20}
    ELSE IF p = 20 THEN {25} ELSE IF p = 25 THEN {30}
    ELSE IF p \in {30, 40, 50, 60} THEN {40, 50, 60, 65} \ {p}
    ELSE IF p = 65 THEN {70} ELSE IF p = 70 THEN {75} ELSE IF p = 75 THEN {80}
    ELSE IF p = 80 THEN {85} ELSE IF p = 85 THEN {90} ELSE IF p = 90 THEN {95}
    ELSE IF p = 95 THEN {100} ELSE {}
C29_CheckpointOrder ==
    [][jobs'[SingleJob].progress # jobs[SingleJob].progress =>
         LET p == jobs[SingleJob].progress
             q == jobs'[SingleJob].progress
         IN /\ q \in CheckpointAfter(p)
            /\ q \in {40, 50, 60} =>
                  \E src \in fetchedS' \ fetchedS : q = FetchPercent(src)
            /\ q >= 65 => fetchedS = Sources]_vars
C29_Witness ==
    /\ jobs[SingleJob].progress = 100
    /\ jobs[SingleJob].status = "completed"
    /\ retS = "completed" /\ fetchedS = Sources

\* C31: a render that returned without its output file is never taken for a
\* success.  No Poster row is without a file; a generate_poster run whose
\* file is missing goes to the error branch, which stores Failed with
\* failed_at and adds no Poster; and when a batch has returned, the job of
\* every theme whose file was missing is Failed and has no Poster row.
C31_MissingFileFails ==
    /\ [][/\ (pcS = "verify" /\ ~outS) => pcS' \in {"verify", "except"}
          /\ (pcS = "except" /\ pcS' = "done" /\ sessS) =>
                 /\ jobs'[SingleJob].status = "failed"
                 /\ jobs'[SingleJob].failed_at
                 /\ posters' = posters]_vars
    /\ [](\A n \in 1..Len(posters) : posters[n].file)
    /\ []((pcB = "done" /\ retB = "completed") =>
            \A i \in 1..Len(results) :
               results[i].error = "not_created" =>
                  /\ jobs[resolved[i]].status = "failed"
                  /\ \A n \in 1..Len(posters) : posters[n].job_id # resolved[i])

\* C32: a cancel request made while generate_poster is rendering does not
\* interrupt the render.  The steps of cancel_job leave the task where it is,
\* and a render in progress ends only by returning or by raising.
C32_RenderNotInterrupted ==
    [][/\ cancelPc' # cancelPc => (pcS' = pcS /\ rendering' = rendering)
       /\ pcS = "render" => pcS' \in {"render", "verify", "except"}]_vars

\* C33: the step that takes a job from Pending to Processing stores
\* started_at and an empty progress log, and the first checkpoint stored for
\* a Processing job is the one at 5; for a batch the start step makes every
\* resolved member Processing with started_at, in one commit.
C33_StartThenLocationFound ==
    [][/\ \A j \in JobIds :
            /\ (jobs[j].status = "pending" /\ jobs'[j].status = "processing") =>
                   (jobs'[j].started_at /\ jobs'[j].progress_steps = <<>>)
            /\ (/\ jobs[j].status = "processing" /\ jobs'[j].status = "processing"
                /\ jobs[j].progress = 0 /\ jobs'[j].progress # 0) =>
                   jobs'[j].progress = 5
       /\ (pcB = "start" /\ pcB' # "start") =>
            \A i \in 1..Len(resolved) :
               /\ jobs'[resolved[i]].status = "processing"
               /\ jobs'[resolved[i]].started_at]_vars

\* C34: while the single job is Processing its progress log is append-only:
\* every checkpoint the store receives leaves the earlier records as they
\* were and adds one record, for that checkpoint, at the end.
C34_ProgressLogAppendOnly ==
    [][(/\ jobs[SingleJob].status = "processing"
        /\ jobs'[SingleJob].status = "processing"
        /\ jobs'[SingleJob].progress # jobs[SingleJob].progress) =>
           jobs'[SingleJob].progress_steps =
              Append(jobs[SingleJob].progress_steps, jobs'[SingleJob].progress)]_vars

\* C35 as stated: a call that missed the cache and was permitted stores a
\* location the resolver returned under the lower-cased key with the 30 days
\* to live and returns it not cached; after not-found or a resolver error the
\* cache is as it was.
C35_MissStoresResult ==
    [][(geoSeq' # geoSeq /\ geoRet'.read = "miss" /\ geoRet'.upstream) =>
          LET key == <<Lower(geoRet'.city), Lower(geoRet'.country)>> IN
          /\ geoRet'.result \in {"fresh", "None", "GeocodingError"}
          /\ geoRet'.result = "fresh" =>
                geoCache' = [geoCache EXCEPT ![key] =
                               [city |-> geoRet'.city, country |-> geoRet'.country,
                                ttl |-> 86400 * 30]]
          /\ geoRet'.result # "fresh" =>
                (geoCache' = geoCache /\ geoCache'[key] = NoEntry)]_vars

\* C35 amended: the location is stored when the store takes the write; when
\* the write raises the cache is as it was and the result is returned all
\* the same.  A call that finds no entry for its pair consults the limiter.
C35_MissStoresResultWhenWritable ==
    [][/\ (geoSeq' # geoSeq /\ geoRet'.read = "miss" /\ geoRet'.upstream) =>
          LET key == <<Lower(geoRet'.city), Lower(geoRet'.country)>> IN
          /\ geoRet'.result \in {"fresh", "None", "GeocodingError"}
          /\ (geoRet'.result = "fresh" /\ geoRet'.write = "ok") =>
                geoCache' = [geoCache EXCEPT ![key] =
                               [city |-> geoRet'.city, country |-> geoRet'.country,
                                ttl |-> 86400 * 30]]
          /\ (geoRet'.result # "fresh" \/ geoRet'.write # "ok") =>
                (geoCache' = geoCache /\ geoCache'[key] = NoEntry)
       /\ (geoSeq' # geoSeq /\ geoRet'.read = "miss") =>
             /\ geoRet'.limiter # "none"
             /\ geoRet'.result # "RateLimitExceeded" => geoRet'.upstream]_vars

\* C35 witness: "Oslo", "NO" was not found, nothing was stored, and the next
\* call for the pair missed again and stored the location it was given.
C35_Witness ==
    /\ geoRet.read = "miss" /\ geoRet.result = "None"
    /\ geoRet.city = "Oslo" /\ geoRet.country = "NO"
    /\ geoCache[<<"oslo", "no">>] = NoEntry
    /\ limCount > 0

\* The ids of the batch that the lookups resolved.
ResolvedIds == {resolved[i] : i \in 1..Len(resolved)}

\* C36: a running generate_batch_posters changes no row of a job it did not
\* resolve, sets exactly the resolved jobs Processing at its start, and has
\* one result per resolved job when it returns.
C36_UnresolvedUntouched ==
    /\ [][/\ pcB \notin {"off", "unqueued"} =>
               \A j \in JobIds \ ResolvedIds : jobs'[j] = jobs[j]
          /\ (pcB = "start" /\ pcB' # "start") =>
               \A j \in JobIds :
                  (jobs'[j].status = "processing") <=> (j \in ResolvedIds)]_vars
    /\ []((pcB = "done" /\ retB = "completed") => Len(results) = Len(resolved))

\* C36 witness: of two ids one was given up; the batch ended with the
\* resolved job Completed and the other still Pending, never started.
C36_Witness ==
    /\ pcB = "done" /\ retB = "completed"
    /\ Len(batchIds) = 2 /\ Len(resolved) = 1
    /\ jobs[resolved[1]].status = "completed"
    /\ \E j \in Members \ ResolvedIds :
          jobs[j].status = "pending" /\ ~jobs[j].started_at /\ jobs[j].progress = 0

\* C37: the handler of generate_batch_posters leaves a member that is
\* Completed as it was, its row and its Poster, and does not change the
\* status of a member that is Cancelled.
C37_HandlerSparesCompletedAndCancelled ==
    [][(pcB = "handler" /\ pcB' = "done") =>
          /\ posters' = posters
          /\ \A j \in ResolvedIds :
                /\ jobs[j].status = "completed" => jobs'[j] = jobs[j]
                /\ jobs[j].status = "cancelled" => jobs'[j].status = "cancelled"]_vars

\* C38: no two members of a batch render to the same output path: the files
\* written for two different members have different names.
C38_DistinctOutputPaths ==
    \A i, k \in 1..Len(results) :
       (i # k /\ results[i].file /\ results[k].file) => OutputFile(i) # OutputFile(k)

\* C39: a generate_poster run that found its job comes to an end, and when
\* it has ended by itself the job is Completed, Failed or Cancelled, not
\* Processing.
C39_EndsTerminal ==
    /\ (pcS = "start") ~> (pcS \in {"done", "dead"})
    /\ []((pcS = "done" /\ jobS) => jobs[SingleJob].status \in Terminal)

\* What the sentence calls done and busy, with the keywords looked for as
\* they are spelled.
SaysDone(step) ==
    \/ EndsWith(step, CheckMark)
    \/ \E i \in 1..Len(step) : PartOf("downloaded", step[i]) \/ PartOf("completed", step[i])
SaysBusy(step) ==
    \/ EndsWith(step, "...")
    \/ \E i \in 1..Len(step) : PartOf("processing", step[i]) \/ PartOf("rendering", step[i])

\* C40 as stated: the status of a step record is completed when the text
\* ends in the done marker or contains 'downloaded' or 'completed',
\* otherwise in_progress when it ends in an ellipsis or contains
\* 'processing' or 'rendering', otherwise pending.
C40_StatusFromText ==
    stepEntry # NoStep =>
       /\ stepEntry.status \in {"pending", "in_progress", "completed"}
       /\ stepEntry.status =
             IF SaysDone(stepEntry.step) THEN "completed"
             ELSE IF SaysBusy(stepEntry.step) THEN "in_progress"
             ELSE "pending"

\* The same tests on the text in lower case.
SaysDoneAnyCase(step) ==
    SaysDone([i \in 1..Len(step) |-> Lower(step[i])])
SaysBusyAnyCase(step) ==
    SaysBusy([i \in 1..Len(step) |-> Lower(step[i])])

\* C40 amended: the keywords are looked for without regard to letter case;
\* the status is one of the three, fixed by the text alone, completed before
\* in_progress before pending.
C40_StatusFromTextAnyCase ==
    stepEntry # NoStep =>
       /\ stepEntry.status \in {"pending", "in_progress", "completed"}
       /\ stepEntry.status =
             IF SaysDoneAnyCase(stepEntry.step) THEN "completed"
             ELSE IF SaysBusyAnyCase(stepEntry.step) THEN "in_progress"
             ELSE "pending"

\* C40 witness: a text that passes both tests, "Rendering completed ...",
\* was recorded as completed.
C40_Witness ==
    /\ stepEntry.step = <<"Rendering", "completed", "...">>
    /\ stepEntry.status = "completed"
====
